---- MODULE Spec2Model ----
(***************************************************************************)
(* Arcade Flow Analyzer: the pipeline of main.py (FlowAnalyzer.analyze),   *)
(* the decoder of flow_parser.py (FlowParser), the classifier of           *)
(* ai_summary_generator.py (AISummaryGenerator.generate_insights) and the  *)
(* title-based brand and task extractor of social_image_generator.py.      *)
(*                                                                         *)
(* Texts that the code inspects (element text, hotspot label, page url,    *)
(* titles) are sequences of one-character strings, so that lower() and the *)
(* substring tests are computed and not assumed.  A Python dict is a       *)
(* function whose DOMAIN is the set of its keys.  An Optional local that   *)
(* may be unbound is a sequence of length 0 (unbound) or 1 (bound).        *)
(***************************************************************************)
EXTENDS Integers, Sequences, FiniteSets, TLC

\* ------------------------------------------------------------------ bounds
MaxSteps == 2
MaxLen == 2
MaxRuns == 2
MaxParses == 2
MaxWords == 2

\* ------------------------------------------------------------ text helpers
UpperChars == <<"A","B","C","D","E","F","G","H","I","J","K","L","M",
                "N","O","P","Q","R","S","T","U","V","W","X","Y","Z">>
LowerChars == <<"a","b","c","d","e","f","g","h","i","j","k","l","m",
                "n","o","p","q","r","s","t","u","v","w","x","y","z">>

\* str.lower() on one character
LowerChar(c) ==
    IF \E i \in 1..26 : UpperChars[i] = c
    THEN LowerChars[CHOOSE i \in 1..26 : UpperChars[i] = c]
    ELSE c

\* str.lower()
Lower(s) == [i \in 1..Len(s) |-> LowerChar(s[i])]

\* Python's `sub in s` on strings
Contains(s, sub) ==
    \E i \in 0..(Len(s) - Len(sub)) : SubSeq(s, i + 1, i + Len(sub)) = sub

\* dict.get(key, default)
Get(d, k, default) == IF k \in DOMAIN d THEN d[k] ELSE default

\* the empty dict
EmptyDict == [k \in {} |-> 0]

\* Python's None (where the other values of the slot are strings)
None == "None"

\* the words the code looks for
W_cart == <<"c","a","r","t">>
W_search == <<"s","e","a","r","c","h">>
W_scooter == <<"s","c","o","o","t","e","r">>
W_thank_you == <<"t","h","a","n","k"," ","y","o","u">>
W_conclusion == <<"c","o","n","c","l","u","s","i","o","n">>
Colors == { <<"B","l","u","e">>, <<"P","i","n","k">>, <<"R","e","d">>,
            <<"B","l","a","c","k">> }

\* Optional[...] values of the UserAction fields: <<>> is None, <<x>> is x
NoneOpt == <<>>
Some(x) == <<x>>

\* an f-string with one interpolated text: fmt holds the fixed part with {}
\* where arg is inserted; Desc("{}", t) is the text t itself
Desc(fmt, arg) == [fmt |-> fmt, arg |-> arg]

\* len(description) > 0
DescNonEmpty(d) == IF d.fmt = "{}" THEN Len(d.arg) > 0 ELSE d.fmt # ""

\* ------------------------------------------------------------ flow_parser
\* the UserAction dataclass (raw_data, a copy of the step, is not kept)
UserAction(step_number, action_type, description, element_text, element_type, page_url, page_title, timestamp, css_selector, hotspot_label) ==
    [ step_number |-> step_number, action_type |-> action_type,
      description |-> description, element_text |-> element_text,
      element_type |-> element_type, page_url |-> page_url,
      page_title |-> page_title, timestamp |-> timestamp,
      css_selector |-> css_selector, hotspot_label |-> hotspot_label ]

\* ParseChapterStep whose end screen is an Action of type complete
ParseChapterStep_Complete(step, step_number) ==
    LET title == Get(step, "title", <<>>)
    IN  IF Contains(Lower(title), W_thank_you)
           \/ Contains(Lower(title), W_conclusion)
        THEN UserAction(step_number, "complete",
                        Desc("Reached end screen: {}", title),
                        NoneOpt, NoneOpt, NoneOpt, NoneOpt, NoneOpt,
                        NoneOpt, NoneOpt)
        ELSE UserAction(step_number, "navigate",
                        Desc("Started flow: {}", title),
                        NoneOpt, NoneOpt, NoneOpt, NoneOpt, NoneOpt,
                        NoneOpt, NoneOpt)

\* FlowParser._parse_chapter_step
ParseChapterStep(step, step_number) ==
    LET title == Get(step, "title", <<>>)
    IN  IF Contains(Lower(title), W_thank_you)
           \/ Contains(Lower(title), W_conclusion)
        THEN UserAction(step_number, "navigate",
                        Desc("Reached end screen: {}", title),
                        NoneOpt, NoneOpt, NoneOpt, NoneOpt, NoneOpt,
                        NoneOpt, NoneOpt)
        ELSE UserAction(step_number, "navigate",
                        Desc("Started flow: {}", title),
                        NoneOpt, NoneOpt, NoneOpt, NoneOpt, NoneOpt,
                        NoneOpt, NoneOpt)

\* DetermineActionTypeAndDescription whose default branch returns the
\* hotspot label as it is, also when it is empty
DetermineActionTypeAndDescription_RawLabel(element_text, element_type, hotspot_label, page_url) ==
    IF element_type = "button"
    THEN IF Contains(Lower(element_text), W_cart)
         THEN << "add_to_cart",
                 Desc("Added item to cart by clicking '{}'", element_text) >>
         ELSE IF Contains(Lower(element_text), W_search)
         THEN << "search",
                 Desc("Initiated search by clicking '{}'", element_text) >>
         ELSE << "click", Desc("Clicked button '{}'", element_text) >>
    ELSE IF element_type = "image"
    THEN IF Contains(Lower(element_text), W_scooter)
         THEN << "select_product",
                 Desc("Selected product: {}", element_text) >>
         ELSE IF element_text \in Colors
         THEN << "select_option",
                 Desc("Selected color option: {}", element_text) >>
         ELSE << "click", Desc("Clicked image: {}", element_text) >>
    ELSE IF element_type = "other"
            /\ Contains(Lower(element_text), W_search)
    THEN << "search",
            Desc("Clicked on search bar to start searching", <<>>) >>
    ELSE IF element_type = "link"
    THEN IF Contains(page_url, W_cart) \/ element_text = <<"1">>
         THEN << "navigate", Desc("Navigated to shopping cart", <<>>) >>
         ELSE << "navigate", Desc("Clicked link: {}", element_text) >>
    ELSE << "click", Desc("{}", hotspot_label) >>

\* FlowParser._determine_action_type_and_description; element_type is only
\* compared for equality, so it is a plain string
DetermineActionTypeAndDescription(element_text, element_type, hotspot_label, page_url) ==
    LET base_description ==
            IF hotspot_label # <<>> THEN Desc("{}", hotspot_label)
            ELSE IF element_text # <<>>
                 THEN Desc("Clicked on {}", element_text)
                 ELSE Desc("Performed action", <<>>)
    IN  IF element_type = "button"
        THEN IF Contains(Lower(element_text), W_cart)
             THEN << "add_to_cart",
                     Desc("Added item to cart by clicking '{}'", element_text) >>
             ELSE IF Contains(Lower(element_text), W_search)
             THEN << "search",
                     Desc("Initiated search by clicking '{}'", element_text) >>
             ELSE << "click", Desc("Clicked button '{}'", element_text) >>
        ELSE IF element_type = "image"
        THEN IF Contains(Lower(element_text), W_scooter)
             THEN << "select_product",
                     Desc("Selected product: {}", element_text) >>
             ELSE IF element_text \in Colors
             THEN << "select_option",
                     Desc("Selected color option: {}", element_text) >>
             ELSE << "click", Desc("Clicked image: {}", element_text) >>
        ELSE IF element_type = "other"
                /\ Contains(Lower(element_text), W_search)
        THEN << "search",
                Desc("Clicked on search bar to start searching", <<>>) >>
        ELSE IF element_type = "link"
        THEN IF Contains(page_url, W_cart) \/ element_text = <<"1">>
             THEN << "navigate", Desc("Navigated to shopping cart", <<>>) >>
             ELSE << "navigate", Desc("Clicked link: {}", element_text) >>
        ELSE << "click", base_description >>

\* the keys of event_map in FlowParser.parse: the truthy clickIds
EventKeys(captured_events) ==
    { Get(captured_events[i], "clickId", "") :
        i \in { j \in 1..Len(captured_events) :
                  Get(captured_events[j], "clickId", "") # "" } }

\* event_map in FlowParser.parse: a later event replaces an earlier one
\* with the same clickId
EventMap(captured_events) ==
    [ k \in EventKeys(captured_events) |->
        captured_events[
            CHOOSE i \in 1..Len(captured_events) :
                /\ Get(captured_events[i], "clickId", "") = k
                /\ \A j \in (i + 1)..Len(captured_events) :
                       Get(captured_events[j], "clickId", "") # k ] ]

\* FlowParser._parse_image_step
ParseImageStep(step, event_map, step_number) ==
    LET step_id == Get(step, "id", None)
        page_context == Get(step, "pageContext", EmptyDict)
        click_context == Get(step, "clickContext", EmptyDict)
        hotspots == Get(step, "hotspots", <<>>)
        page_url == Get(page_context, "url", <<>>)
        page_title == Get(page_context, "title", <<>>)
        element_text == Get(click_context, "text", <<>>)
        element_type == Get(click_context, "elementType", "")
        css_selector == Get(click_context, "cssSelector", <<>>)
        hotspot_label == IF Len(hotspots) > 0
                         THEN Get(hotspots[1], "label", <<>>)
                         ELSE <<>>
        timestamp == IF step_id \in DOMAIN event_map
                     THEN IF "timeMs" \in DOMAIN event_map[step_id]
                          THEN Some(event_map[step_id].timeMs)
                          ELSE NoneOpt
                     ELSE NoneOpt
        td == DetermineActionTypeAndDescription(element_text, element_type,
                                                hotspot_label, page_url)
    IN  UserAction(step_number, td[1], td[2], Some(element_text),
                   Some(element_type), Some(page_url), Some(page_title),
                   timestamp, Some(css_selector), Some(hotspot_label))

\* ParseLoop whose counter also advances on a step that is skipped
RECURSIVE ParseLoop_VideoCounts(_, _, _, _, _)
ParseLoop_VideoCounts(steps, i, event_map, step_number, acc) ==
    IF i > Len(steps) THEN acc
    ELSE LET step_type == Get(steps[i], "type", None)
         IN  IF step_type = "CHAPTER"
             THEN ParseLoop_VideoCounts(steps, i + 1, event_map,
                     step_number + 1,
                     Append(acc, ParseChapterStep(steps[i], step_number)))
             ELSE IF step_type = "IMAGE"
             THEN ParseLoop_VideoCounts(steps, i + 1, event_map,
                     step_number + 1,
                     Append(acc, ParseImageStep(steps[i], event_map,
                                                step_number)))
             ELSE ParseLoop_VideoCounts(steps, i + 1, event_map,
                                        step_number + 1, acc)

\* ParseLoop that drops an IMAGE step which has no clickContext
RECURSIVE ParseLoop_SkipBare(_, _, _, _, _)
ParseLoop_SkipBare(steps, i, event_map, step_number, acc) ==
    IF i > Len(steps) THEN acc
    ELSE LET step_type == Get(steps[i], "type", None)
         IN  IF step_type = "CHAPTER"
             THEN ParseLoop_SkipBare(steps, i + 1, event_map, step_number + 1,
                     Append(acc, ParseChapterStep(steps[i], step_number)))
             ELSE IF step_type = "IMAGE" /\ "clickContext" \in DOMAIN steps[i]
             THEN ParseLoop_SkipBare(steps, i + 1, event_map, step_number + 1,
                     Append(acc, ParseImageStep(steps[i], event_map,
                                                step_number)))
             ELSE ParseLoop_SkipBare(steps, i + 1, event_map, step_number,
                                     acc)

\* the loop of FlowParser.parse over steps[i..], step_number being the
\* running counter and acc the list self.actions
RECURSIVE ParseLoop(_, _, _, _, _)
ParseLoop(steps, i, event_map, step_number, acc) ==
    IF i > Len(steps) THEN acc
    ELSE LET step_type == Get(steps[i], "type", None)
         IN  IF step_type = "CHAPTER"
             THEN ParseLoop(steps, i + 1, event_map, step_number + 1,
                     Append(acc, ParseChapterStep(steps[i], step_number)))
             ELSE IF step_type = "IMAGE"
             THEN ParseLoop(steps, i + 1, event_map, step_number + 1,
                     Append(acc, ParseImageStep(steps[i], event_map,
                                                step_number)))
             ELSE ParseLoop(steps, i + 1, event_map, step_number, acc)

\* FlowParser.parse on a parser whose self.actions is self_actions
Parse(flow_data, self_actions) ==
    LET steps == Get(flow_data, "steps", <<>>)
        captured_events == Get(flow_data, "capturedEvents", <<>>)
    IN  ParseLoop(steps, 1, EventMap(captured_events), 0, self_actions)

\* FlowParser.__init__: self.flow_name
FlowName(flow_data) ==
    Get(flow_data, "name",
        <<"U","n","k","n","o","w","n"," ","F","l","o","w">>)

\* ---------------------------------------------------- ai_summary_generator
T_Unknown == <<"U","n","k","n","o","w","n">>
T_workflow == <<"w","o","r","k","f","l","o","w">>
T_digital_workflow == <<"d","i","g","i","t","a","l"," ">> \o T_workflow

\* HasType with all() in the place of any()
HasType_All(actions, t) == \A i \in 1..Len(actions) : actions[i].action_type = t

\* any(action.action_type == t for action in actions)
HasType(actions, t) == \E i \in 1..Len(actions) : actions[i].action_type = t

\* the action_types dict built by the loop of generate_insights
ActionBreakdown(actions) ==
    [ t \in { actions[i].action_type : i \in 1..Len(actions) } |->
        Cardinality({ i \in 1..Len(actions) : actions[i].action_type = t }) ]

\* ClassifyFlowType with the has_purchase branch tried first
ClassifyFlowType_PurchaseFirst(has_search, has_customization, has_purchase, completed) ==
    IF has_purchase THEN "E-commerce Conversion (Incomplete)"
    ELSE IF completed /\ has_purchase
    THEN IF has_customization
         THEN "Successful E-commerce Conversion with Product Customization"
         ELSE "Successful E-commerce Conversion"
    ELSE IF has_search /\ has_customization
    THEN "Product Research with Customization Exploration"
    ELSE IF has_search THEN "Product Discovery Flow"
    ELSE "General Navigation Flow"

\* ClassifyFlowType whose first branch forgets has_purchase
ClassifyFlowType_CompletedOnly(has_search, has_customization, has_purchase, completed) ==
    IF completed
    THEN IF has_customization
         THEN "Successful E-commerce Conversion with Product Customization"
         ELSE "Successful E-commerce Conversion"
    ELSE IF has_purchase THEN "E-commerce Conversion (Incomplete)"
    ELSE IF has_search /\ has_customization
    THEN "Product Research with Customization Exploration"
    ELSE IF has_search THEN "Product Discovery Flow"
    ELSE "General Navigation Flow"

\* AISummaryGenerator._classify_flow_type
ClassifyFlowType(has_search, has_customization, has_purchase, completed) ==
    IF completed /\ has_purchase
    THEN IF has_customization
         THEN "Successful E-commerce Conversion with Product Customization"
         ELSE "Successful E-commerce Conversion"
    ELSE IF has_purchase THEN "E-commerce Conversion (Incomplete)"
    ELSE IF has_search /\ has_customization
    THEN "Product Research with Customization Exploration"
    ELSE IF has_search THEN "Product Discovery Flow"
    ELSE "General Navigation Flow"

\* SearchToProduct that wants the search in front of the selection
SearchToProduct_Ordered(actions) ==
    \E i, j \in 1..Len(actions) :
        /\ i < j
        /\ actions[i].action_type = "search"
        /\ actions[j].action_type = "select_product"

\* search_to_product in generate_insights
SearchToProduct(actions) ==
    HasType(actions, "search") /\ HasType(actions, "select_product")

\* ProductToCart without the test for a selected product
ProductToCart_NoProduct(actions) == HasType(actions, "add_to_cart")

\* product_to_cart in generate_insights
ProductToCart(actions) ==
    HasType(actions, "select_product") /\ HasType(actions, "add_to_cart")

\* CompletionRate as a fraction instead of a percentage
CompletionRate_Fraction(completed) == IF completed THEN 1 ELSE 0

\* "completion_rate": 100 if completed else 0
CompletionRate(completed) == IF completed THEN 100 ELSE 0

\* the insights dict of generate_insights before the extraction is merged in
InsightsDict(actions) ==
    LET has_search == HasType(actions, "search")
        has_customization == HasType(actions, "select_option")
                             \/ HasType(actions, "browse_options")
        has_purchase == HasType(actions, "add_to_cart")
        completed == HasType(actions, "complete")
        declined_upsell == HasType(actions, "decline_option")
        search_to_product == SearchToProduct(actions)
        product_to_cart == ProductToCart(actions)
    IN  [ action_breakdown |-> ActionBreakdown(actions),
          conversion_funnel |->
            [ search_initiated |-> has_search,
              product_selected |-> search_to_product,
              customization_explored |-> has_customization,
              cart_conversion |-> product_to_cart,
              flow_completed |-> completed ],
          user_behavior_indicators |->
            [ price_conscious |-> declined_upsell,
              exploration_oriented |-> has_customization,
              goal_oriented |-> search_to_product /\ product_to_cart,
              completion_rate |-> CompletionRate(completed) ],
          flow_classification |->
            ClassifyFlowType(has_search, has_customization, has_purchase,
                             completed) ]

\* dict.update: the keys of other replace or extend those of d
DictUpdate(d, other) == other @@ d

\* the value of the last line of the response that starts with tag, the
\* default when there is none; a line is [tag, text], tag being the prefix
\* the line starts with ("" for any other line) and text the stripped rest
LastTagged(lines, tag, default) ==
    IF \E i \in 1..Len(lines) : lines[i].tag = tag
    THEN lines[CHOOSE i \in 1..Len(lines) :
                  /\ lines[i].tag = tag
                  /\ \A j \in (i + 1)..Len(lines) : lines[j].tag # tag].text
    ELSE default

\* ParseExtractionResponse storing the task type under the key of the label
ParseExtractionResponse_KeyClash(lines) ==
    [ extracted_brand |-> LastTagged(lines, "BRAND:", T_Unknown),
      product_type |-> LastTagged(lines, "PRODUCT_TYPE:", T_workflow),
      flow_classification |->
          LastTagged(lines, "TASK_TYPE:", T_digital_workflow) ]

\* AISummaryGenerator._parse_extraction_response
ParseExtractionResponse(lines) ==
    [ extracted_brand |-> LastTagged(lines, "BRAND:", T_Unknown),
      product_type |-> LastTagged(lines, "PRODUCT_TYPE:", T_workflow),
      task_type |-> LastTagged(lines, "TASK_TYPE:", T_digital_workflow) ]

\* AISummaryGenerator._extract_brand_and_context, reply being the outcome of
\* its chat-completion request: [ok |-> FALSE] when the request raises
ExtractBrandAndContext(reply) ==
    IF reply.ok
    THEN ParseExtractionResponse(reply.lines)
    ELSE [ extracted_brand |-> T_Unknown, product_type |-> T_workflow,
           task_type |-> T_digital_workflow ]

\* AISummaryGenerator.generate_insights
GenerateInsights(actions, reply) ==
    DictUpdate(InsightsDict(actions), ExtractBrandAndContext(reply))

\* AISummaryGenerator.generate_summary, reply1 and reply2 being the outcomes
\* of its two chat-completion requests (the second is made only when the
\* first succeeded)
GenerateSummary(actions, flow_name, reply1, reply2) ==
    IF reply1.ok /\ reply2.ok
    THEN [ detailed_analysis |-> reply1.text,
           executive_summary |-> reply2.text,
           flow_name |-> flow_name, total_actions |-> Len(actions) ]
    ELSE [ detailed_analysis |-> "Error generating analysis: {e}",
           executive_summary |-> "Analysis of {flow_name} encountered an error",
           flow_name |-> flow_name, total_actions |-> Len(actions) ]

\* ------------------------------------------------- social_image_generator
\* str.upper() on one character
UpperChar(c) ==
    IF \E i \in 1..26 : LowerChars[i] = c
    THEN UpperChars[CHOOSE i \in 1..26 : LowerChars[i] = c]
    ELSE c

\* str.isupper() and str.isalpha() on one character
IsUpper(c) == \E i \in 1..26 : UpperChars[i] = c
IsLetter(c) == IsUpper(c) \/ \E i \in 1..26 : LowerChars[i] = c

\* the characters \w and \s of the patterns match (the titles are ASCII and
\* their only whitespace is the space)
IsWordChar(c) ==
    IsLetter(c) \/ c \in {"0","1","2","3","4","5","6","7","8","9","_"}
IsSpace(c) == c = " "

\* str.title(): a letter is upper-cased after a character that is not a
\* letter and lower-cased after a letter
Title(s) ==
    [ i \in 1..Len(s) |->
        IF i = 1 \/ ~IsLetter(s[i - 1]) THEN UpperChar(s[i])
        ELSE LowerChar(s[i]) ]

\* whether position p of s holds a \w character
WordAt(s, p) == p \in 1..Len(s) /\ IsWordChar(s[p])

\* \b in front of position p
BoundaryAt(s, p) == WordAt(s, p - 1) # WordAt(s, p)

\* whether s has the literal lit at position p
LitAt(s, p, lit) ==
    /\ p + Len(lit) - 1 <= Len(s)
    /\ SubSeq(s, p, p + Len(lit) - 1) = lit

\* the position after the greedy \w+ (\s+) that starts at p; p when there
\* is no such character at p
WordRunEnd(s, p) ==
    CHOOSE q \in p..(Len(s) + 1) :
        /\ \A i \in p..(q - 1) : IsWordChar(s[i])
        /\ q = Len(s) + 1 \/ ~IsWordChar(s[q])
SpaceRunEnd(s, p) ==
    CHOOSE q \in p..(Len(s) + 1) :
        /\ \A i \in p..(q - 1) : IsSpace(s[i])
        /\ q = Len(s) + 1 \/ ~IsSpace(s[q])

\* brand_patterns of _detect_brand_from_flow_name, in the order of the
\* list.  A pattern is an anchor (\b or ^), an optional literal followed by
\* \s+, the group (\w+), and what follows the group: \b, \.com\b, \s+\w+,
\* or \s+ with a literal and \b
BrandPatterns ==
    << [anchor |-> "b", pre |-> <<"o","n">>, suf |-> "dotcom", lit |-> <<>>],
       [anchor |-> "b", pre |-> <<"i","n">>, suf |-> "b", lit |-> <<>>],
       [anchor |-> "b", pre |-> <<"u","s","i","n","g">>, suf |-> "b", lit |-> <<>>],
       [anchor |-> "b", pre |-> <<"w","i","t","h">>, suf |-> "b", lit |-> <<>>],
       [anchor |-> "start", pre |-> <<>>, suf |-> "word", lit |-> <<>>],
       [anchor |-> "b", pre |-> <<>>, suf |-> "lit", lit |-> <<"a","p","p">>],
       [anchor |-> "b", pre |-> <<>>, suf |-> "lit", lit |-> <<"p","l","a","t","f","o","r","m">>],
       [anchor |-> "b", pre |-> <<>>, suf |-> "lit", lit |-> <<"d","a","s","h","b","o","a","r","d">>] >>

\* where the group of pat starts when the match starts at position p of s:
\* after the literal and the whitespace that follows it
GroupStart(pat, s, p) ==
    IF pat.pre = <<>> \/ ~LitAt(s, p, pat.pre) THEN p
    ELSE SpaceRunEnd(s, p + Len(pat.pre))

\* whether the part of pat in front of the group matches from p to c
PrefixOk(pat, s, p, c) ==
    /\ IF pat.anchor = "start" THEN p = 1 ELSE BoundaryAt(s, p)
    /\ pat.pre = <<>> \/ (LitAt(s, p, pat.pre) /\ c > p + Len(pat.pre))

\* whether the part of pat behind the group matches at e, f being the
\* position after the whitespace at e
SuffixOk(pat, s, e, f) ==
    CASE pat.suf = "b" -> TRUE
      [] pat.suf = "dotcom" ->
            LitAt(s, e, <<".","c","o","m">>) /\ ~WordAt(s, e + 4)
      [] pat.suf = "word" -> f > e /\ WordAt(s, f)
      [] pat.suf = "lit" ->
            f > e /\ LitAt(s, f, pat.lit) /\ ~WordAt(s, f + Len(pat.lit))

\* the group s[c..e-1] when it is not empty and the rest of pat follows it
GroupFrom(pat, s, c, e) ==
    IF e > c /\ SuffixOk(pat, s, e, SpaceRunEnd(s, e))
    THEN << SubSeq(s, c, e - 1) >>
    ELSE <<>>

\* the group of a match of pat whose group starts at c
GroupAt(pat, s, p, c) ==
    IF PrefixOk(pat, s, p, c) THEN GroupFrom(pat, s, c, WordRunEnd(s, c))
    ELSE <<>>

\* the group of a match of pat that starts at position p of s, <<>> when
\* pat does not match there
CaptureAt(pat, s, p) == GroupAt(pat, s, p, GroupStart(pat, s, p))

\* the group of the match at the least of the positions hits
LeftmostCapture(pat, s, hits) ==
    IF hits = {} THEN <<>>
    ELSE CaptureAt(pat, s, CHOOSE p \in hits : \A q \in hits : p <= q)

\* re.search(pattern, s): the group of the leftmost match, <<>> for None
Search(pat, s) ==
    LeftmostCapture(pat, s,
        { p \in 1..Len(s) : CaptureAt(pat, s, p) # <<>> })

\* the generic words a brand candidate must not be
BrandStopwords == { <<"t","h","e">>, <<"y","o","u","r">>, <<"o","u","r">>, <<"t","h","i","s">>, <<"t","h","a","t">>, <<"n","e","w">>, <<"f","i","r","s","t">> }

\* the generic words the capitalized-word fallback skips
FallbackStopwords == { <<"a","d","d">>, <<"c","r","e","a","t","e">>, <<"s","e","t","u","p">>, <<"y","o","u","r">>, <<"t","h","e">>, <<"h","o","w">>, <<"t","o">> }

\* str.split(): the words of s, in order
Split(s) ==
    LET starts == { p \in 1..Len(s) :
                      ~IsSpace(s[p]) /\ (p = 1 \/ IsSpace(s[p - 1])) }
        word(p) == SubSeq(s, p,
                      (CHOOSE q \in p..(Len(s) + 1) :
                          /\ \A i \in p..(q - 1) : ~IsSpace(s[i])
                          /\ q = Len(s) + 1 \/ IsSpace(s[q])) - 1)
        nth(k) == CHOOSE p \in starts :
                      Cardinality({ q \in starts : q < p }) = k - 1
    IN  [ k \in 1..Cardinality(starts) |-> word(nth(k)) ]

\* the fallback of _detect_brand_from_flow_name: the first capitalized word
\* of more than two characters that is not generic
BrandFallback(flow_name) ==
    LET words == Split(flow_name)
        ok(k) == /\ IsUpper(words[k][1])
                 /\ Len(words[k]) > 2
                 /\ Lower(words[k]) \notin FallbackStopwords
    IN  IF \E k \in 1..Len(words) : ok(k)
        THEN words[CHOOSE k \in 1..Len(words) :
                       ok(k) /\ \A j \in 1..(k - 1) : ~ok(j)]
        ELSE T_Unknown

\* the loop of _detect_brand_from_flow_name over patterns[k..]
RECURSIVE TryPatterns(_, _, _)
TryPatterns(patterns, k, flow_name) ==
    IF k > Len(patterns) THEN BrandFallback(flow_name)
    ELSE LET match == Search(patterns[k], Lower(flow_name))
         IN  IF match # <<>> /\ Lower(Title(match[1])) \notin BrandStopwords
             THEN Title(match[1])
             ELSE TryPatterns(patterns, k + 1, flow_name)

\* SocialImageGenerator._detect_brand_from_flow_name
DetectBrandFromFlowName(flow_name) == TryPatterns(BrandPatterns, 1, flow_name)

\* SocialImageGenerator._generate_brand_elements
GenerateBrandElements(brand) ==
    IF brand = T_Unknown THEN Desc("Clean, modern branding elements", <<>>)
    ELSE Desc("{} branding with consistent color scheme and logo", brand)

\* the keyword groups of _extract_task_context, in the order of the elif
\* chain, each with the value it returns
TaskGroups ==
    << [ words |-> << <<"s","e","t","u","p">>, <<"s","e","t"," ","u","p">>, <<"c","o","n","f","i","g","u","r","e">> >>,
         result |-> <<"s","e","t","u","p"," ","a","n","d"," ","c","o","n","f","i","g","u","r","a","t","i","o","n">> ],
       [ words |-> << <<"c","r","e","a","t","e">>, <<"b","u","i","l","d">>, <<"d","e","s","i","g","n">> >>,
         result |-> <<"c","r","e","a","t","i","o","n"," ","a","n","d"," ","d","e","s","i","g","n">> ],
       [ words |-> << <<"w","o","r","k","s","p","a","c","e">>, <<"a","c","c","o","u","n","t">>, <<"p","r","o","f","i","l","e">> >>,
         result |-> <<"w","o","r","k","s","p","a","c","e"," ","s","e","t","u","p">> ],
       [ words |-> << <<"d","a","s","h","b","o","a","r","d">>, <<"a","n","a","l","y","t","i","c","s">>, <<"r","e","p","o","r","t">> >>,
         result |-> <<"a","n","a","l","y","t","i","c","s"," ","a","n","d"," ","r","e","p","o","r","t","i","n","g">> ],
       [ words |-> << <<"m","e","e","t","i","n","g">>, <<"c","a","l","l">>, <<"s","c","h","e","d","u","l","e">> >>,
         result |-> <<"m","e","e","t","i","n","g"," ","a","n","d"," ","s","c","h","e","d","u","l","i","n","g">> ],
       [ words |-> << <<"p","r","o","j","e","c","t">>, <<"t","a","s","k">>, <<"w","o","r","k","f","l","o","w">> >>,
         result |-> <<"p","r","o","j","e","c","t"," ","m","a","n","a","g","e","m","e","n","t">> ],
       [ words |-> << <<"t","e","a","m">>, <<"c","o","l","l","a","b","o","r","a","t","i","o","n">>, <<"s","h","a","r","e">> >>,
         result |-> <<"t","e","a","m"," ","c","o","l","l","a","b","o","r","a","t","i","o","n">> ],
       [ words |-> << <<"c","a","r","t">>, <<"s","h","o","p">>, <<"b","u","y">>, <<"p","u","r","c","h","a","s","e">> >>,
         result |-> <<"o","n","l","i","n","e"," ","s","h","o","p","p","i","n","g">> ],
       [ words |-> << <<"o","n","b","o","a","r","d">>, <<"t","u","t","o","r","i","a","l">>, <<"l","e","a","r","n">> >>,
         result |-> <<"l","e","a","r","n","i","n","g"," ","a","n","d"," ","o","n","b","o","a","r","d","i","n","g">> ] >>

\* the elif chain of _extract_task_context over the keyword groups: the
\* value of the first group that has a keyword in the lower-cased title
FirstTaskGroup(groups, flow_name) ==
    LET flow_lower == Lower(flow_name)
        hit(g) == \E i \in 1..Len(groups[g].words) :
                      Contains(flow_lower, groups[g].words[i])
    IN  IF \E g \in 1..Len(groups) : hit(g)
        THEN groups[CHOOSE g \in 1..Len(groups) :
                        hit(g) /\ \A h \in 1..(g - 1) : ~hit(h)].result
        ELSE T_digital_workflow

\* the chain with the last matching group winning
FirstTaskGroup_LastWins(groups, flow_name) ==
    LET flow_lower == Lower(flow_name)
        hit(g) == \E i \in 1..Len(groups[g].words) :
                      Contains(flow_lower, groups[g].words[i])
    IN  IF \E g \in 1..Len(groups) : hit(g)
        THEN groups[CHOOSE g \in 1..Len(groups) :
                        hit(g) /\ \A h \in (g + 1)..Len(groups) : ~hit(h)].result
        ELSE T_digital_workflow

\* SocialImageGenerator._extract_task_context with the last matching
\* keyword group winning
ExtractTaskContext_LastWins(flow_name) ==
    FirstTaskGroup_LastWins(TaskGroups, flow_name)

\* SocialImageGenerator._extract_task_context
ExtractTaskContext(flow_name) == FirstTaskGroup(TaskGroups, flow_name)

\* SocialImageGenerator._extract_flow_context
ExtractFlowContext(flow_name) ==
    LET brand == DetectBrandFromFlowName(flow_name)
    IN  [ brand |-> brand,
          brand_elements |-> GenerateBrandElements(brand),
          task_context |-> ExtractTaskContext(flow_name),
          domain |-> Lower(flow_name) ]

\* flow_context in SocialImageGenerator._create_prompt as it is handed to
\* _generate_contextual_messaging: the dict of _extract_flow_context, in
\* which the brand, the brand elements and the task context are overwritten
\* when the insights argument ins is a non-empty dict with 'extracted_brand'
CreatePromptFlowContext(flow_name, ins) ==
    LET overwritten == DOMAIN ins # {} /\ "extracted_brand" \in DOMAIN ins
    IN  [ brand |-> IF overwritten THEN ins.extracted_brand
                    ELSE ExtractFlowContext(flow_name).brand,
          brand_elements |->
              IF overwritten THEN GenerateBrandElements(ins.extracted_brand)
              ELSE ExtractFlowContext(flow_name).brand_elements,
          task_context |-> IF overwritten THEN ins.task_type
                           ELSE ExtractFlowContext(flow_name).task_context,
          domain |-> Lower(flow_name) ]

\* ------------------------------------------------------------ environment
\* outcomes of one chat-completion request of generate_summary
TextReplies == { [ok |-> FALSE], [ok |-> TRUE, text |-> "generated text"] }

\* outcomes of the chat-completion request of _extract_brand_and_context:
\* the request raises, the reply has the three tagged lines, or the reply
\* has no tagged line at all
ExtractionReplies ==
    { [ok |-> FALSE],
      [ok |-> TRUE,
       lines |-> << [tag |-> "BRAND:", text |-> <<"A","c","m","e">>],
                    [tag |-> "PRODUCT_TYPE:", text |-> <<"b","i","k","e">>],
                    [tag |-> "TASK_TYPE:", text |-> <<"s","h","o","p">>] >>],
      [ok |-> TRUE, lines |-> << [tag |-> "", text |-> <<"h","i">>] >>] }

\* one entry of the history of calls: ev names the call, svc the external
\* service it reaches ("none" for in-process work), actions its argument
Event(ev, svc, acts) == [ev |-> ev, svc |-> svc, actions |-> acts]

\* ------------------------------------------------------------------- main
VARIABLES
    flow_data,       \* the document load_and_parse_flow reads
    api_key,         \* whether OPENAI_API_KEY is set
    pc,              \* position of analyze
    results,         \* the dict analyze returns
    actions,         \* local of analyze, <<>> while unbound
    flow_name,       \* local of analyze, <<>> while unbound
    summary_result,  \* local of analyze, <<>> while unbound
    insights,        \* local of analyze, <<>> while unbound
    caught,          \* history: the stages whose except clause ran, and
                     \* "extraction" for that of _extract_brand_and_context
    log,             \* history: the calls made, in order
    returned,        \* the dicts returned by direct generate_insights
                     \* calls; in the decoder runs, by the latest
                     \* get_summary_stats call
    self_actions,    \* self.actions of the FlowParser parse() is called on
    flow_context,    \* the dict a direct _extract_flow_context call returned
    prompt_flow_context  \* flow_context of _create_prompt, <<>> before it ran

vars == << flow_data, api_key, pc, results, actions, flow_name,
           summary_result, insights, caught, log, returned, self_actions,
           flow_context, prompt_flow_context >>

\* the except clause of the summary stage: results['summary']
FallbackSummary(acts, name) ==
    [ detailed_analysis |-> "Error generating analysis: {e}",
      executive_summary |-> "Analysis of {flow_name} encountered an error",
      flow_name |-> name, total_actions |-> Len(acts) ]

\* the except clause of the summary stage: results['insights']
FallbackInsights ==
    [ flow_classification |-> "Unknown",
      user_behavior_indicators |-> [completion_rate |-> 0] ]

\* OpenAI(api_key=...) in the __init__ of both generators: without the key
\* __init__ raises ValueError, with it the client constructor decides
ClientOk(key, ctor) == key /\ ctor

\* load_and_parse_flow(flow_file): reads the document and returns the
\* actions of a fresh FlowParser with the flow name, or raises when the
\* document cannot be loaded
LoadAndParseFlow(loaded, data) ==
    IF loaded
    THEN [ raised |-> FALSE, actions |-> Parse(data, <<>>),
           flow_name |-> FlowName(data) ]
    ELSE [ raised |-> TRUE, actions |-> <<>>, flow_name |-> <<>> ]

\* ParseStage without the return of the except clause
ParseStage_NoReturn(loaded, data) ==
    LET r == LoadAndParseFlow(loaded, data)
    IN  [ pc |-> "summary",
          results |-> IF r.raised
                      THEN ("error" :> "str(e)")
                      ELSE ("actions" :> r.actions)
                           @@ ("flow_name" :> r.flow_name),
          actions |-> Some(r.actions), flow_name |-> Some(r.flow_name),
          caught |-> IF r.raised THEN {"parse"} ELSE {},
          log |-> << Event("load_and_parse_flow", "none", r.actions) >> ]

\* the parse stage of analyze; loaded is whether the document can be loaded
ParseStage(loaded, data) ==
    LET r == LoadAndParseFlow(loaded, data)
    IN  IF r.raised
        THEN [ pc |-> "done",
               results |-> ("error" :> "str(e)"),
               actions |-> NoneOpt, flow_name |-> NoneOpt,
               caught |-> {"parse"}, log |-> <<>> ]
        ELSE [ pc |-> "summary",
               results |-> ("actions" :> r.actions)
                           @@ ("flow_name" :> r.flow_name),
               actions |-> Some(r.actions), flow_name |-> Some(r.flow_name),
               caught |-> {},
               log |-> << Event("load_and_parse_flow", "none", r.actions) >> ]

\* SummaryCalls with generate_insights called before generate_summary
SummaryCalls_InsightsFirst(acts, reply1) ==
    << Event("AISummaryGenerator", "none", acts),
       Event("generate_insights classify", "none", acts),
       Event("_extract_brand_and_context request", "text", acts),
       Event("generate_summary request", "text", acts) >>
    \o (IF reply1.ok
        THEN << Event("executive summary request", "text", acts) >>
        ELSE <<>>)

\* the calls the summary stage makes once the generator is constructed
SummaryCalls(acts, reply1) ==
    << Event("AISummaryGenerator", "none", acts),
       Event("generate_summary request", "text", acts) >>
    \o (IF reply1.ok
        THEN << Event("executive summary request", "text", acts) >>
        ELSE <<>>)
    \o << Event("generate_insights classify", "none", acts),
          Event("_extract_brand_and_context request", "text", acts) >>

\* the summary stage of analyze: ctor is the outcome of the client
\* constructor, reply1..reply3 those of the three requests
SummaryStage(res, acts, name, key, ctor, reply1, reply2, reply3) ==
    IF ClientOk(key, ctor)
    THEN LET sr == GenerateSummary(acts, name, reply1, reply2)
             ins == GenerateInsights(acts, reply3)
         IN  [ pc |-> "image",
               results |-> ("summary" :> sr) @@ ("insights" :> ins) @@ res,
               summary_result |-> Some(sr), insights |-> Some(ins),
               caught |-> IF reply3.ok THEN {} ELSE {"extraction"},
               log |-> SummaryCalls(acts, reply1) ]
    ELSE [ pc |-> "image",
           results |-> ("summary" :> FallbackSummary(acts, name))
                       @@ ("insights" :> FallbackInsights) @@ res,
           summary_result |-> NoneOpt, insights |-> NoneOpt,
           caught |-> {"summary"}, log |-> <<>> ]

\* the image stage of analyze: the arguments of generate_image are read
\* after the generator is constructed, and reading an unbound local raises
\* UnboundLocalError; generate_image builds the prompt before its request;
\* reply is the outcome of images.generate, written that of saving the file
ImageStage(res, acts, name, sr, ins, key, ctor, reply, written) ==
    IF ~ClientOk(key, ctor)
    THEN [ pc |-> "report", results |-> ("image_filename" :> None) @@ res,
           caught |-> {"image"}, log |-> <<>>,
           prompt_flow_context |-> NoneOpt ]
    ELSE IF sr = NoneOpt \/ ins = NoneOpt
    THEN [ pc |-> "report", results |-> ("image_filename" :> None) @@ res,
           caught |-> {"image"},
           log |-> << Event("SocialImageGenerator", "none", acts) >>,
           prompt_flow_context |-> NoneOpt ]
    ELSE IF ~(reply /\ written)
    THEN [ pc |-> "report", results |-> ("image_filename" :> None) @@ res,
           caught |-> {"image"},
           log |-> << Event("SocialImageGenerator", "none", acts),
                      Event("images.generate request", "image", acts) >>,
           prompt_flow_context |->
               Some(CreatePromptFlowContext(name, ins[1])) ]
    ELSE [ pc |-> "report",
           results |-> ("image_filename" :> "social_media_{time}.png") @@ res,
           caught |-> {},
           log |-> << Event("SocialImageGenerator", "none", acts),
                      Event("images.generate request", "image", acts) >>,
           prompt_flow_context |->
               Some(CreatePromptFlowContext(name, ins[1])) ]

\* ReportStage without its try/except: the exception leaves analyze
ReportStage_Uncaught(res, written) ==
    IF written
    THEN [ pc |-> "done",
           results |-> ("report_filename" :>
                          "flow_analysis_report_{safe_name}_{timestamp}.md")
                       @@ res,
           caught |-> {},
           log |-> << Event("generate_markdown_report", "none",
                            Get(res, "actions", <<>>)) >> ]
    ELSE [ pc |-> "raised", results |-> res, caught |-> {"report"},
           log |-> << Event("generate_markdown_report", "none",
                            Get(res, "actions", <<>>)) >> ]

\* the report stage of analyze; written is whether the file could be saved
ReportStage(res, written) ==
    IF written
    THEN [ pc |-> "done",
           results |-> ("report_filename" :>
                          "flow_analysis_report_{safe_name}_{timestamp}.md")
                       @@ res,
           caught |-> {},
           log |-> << Event("generate_markdown_report", "none",
                            Get(res, "actions", <<>>)) >> ]
    ELSE [ pc |-> "done", results |-> ("report_filename" :> None) @@ res,
           caught |-> {"report"},
           log |-> << Event("generate_markdown_report", "none",
                            Get(res, "actions", <<>>)) >> ]

\* ------------------------------------------------------------------ inputs
\* all sequences over S of length at most n
SeqsUpTo(S, n) == UNION { [1..k -> S] : k \in 0..n }

\* an IMAGE step record of flow.json
ImageStep(id, element_type, text, label, url) ==
    [ type |-> "IMAGE", id |-> id,
      pageContext |-> [url |-> url, title |-> <<"T">>],
      clickContext |-> [text |-> text, elementType |-> element_type,
                        cssSelector |-> <<"#","e">>],
      hotspots |-> << [label |-> label] >> ]

U_home == <<"/","h">>
U_cart == <<"/","c","a","r","t">>

\* the steps the traces are built from
StepPool ==
    { [type |-> "CHAPTER", id |-> "s1", title |-> <<"H","i">>],
      [type |-> "CHAPTER", id |-> "s2",
       title |-> <<"T","h","a","n","k"," ","y","o","u","!">>],
      [type |-> "VIDEO", id |-> "s3"],
      ImageStep("s4", "button", <<"A","d","d"," ","t","o"," ","C","a","r","t">>,
                <<"A","d","d"," ","t","o"," ","c","a","r","t">>, U_home),
      ImageStep("s5", "other", <<"S","e","a","r","c","h">>,
                <<"T","a","p"," ","t","o"," ","s","e","a","r","c","h">>, U_home),
      ImageStep("s6", "image", <<"S","c","o","o","t","e","r">>, <<>>, U_home),
      ImageStep("s7", "image", <<"B","l","u","e">>, <<>>, U_home),
      ImageStep("s8", "link", <<"1">>, <<>>, U_cart),
      [type |-> "IMAGE", id |-> "s9"] }

\* the capturedEvents lists the traces carry
EventPool == { <<>>, << [clickId |-> "s4", timeMs |-> 1500] >> }

N_shop == <<"S","h","o","p">>

\* the documents load_and_parse_flow may read: every field present, or a
\* document with neither name, steps nor capturedEvents
Traces ==
    { [name |-> N_shop, steps |-> st, capturedEvents |-> ev] :
        st \in SeqsUpTo(StepPool, MaxSteps), ev \in EventPool }
    \cup { [type |-> "flow"] }

\* the action types the classifier tells apart, in funnel order, and one
\* type it ignores
FunnelOrder == << "search", "select_product", "select_option",
                  "browse_options", "add_to_cart", "decline_option",
                  "complete", "navigate" >>
FunnelTypes == { FunnelOrder[i] : i \in 1..Len(FunnelOrder) }

\* a UserAction of the given type at position i
ActionOfType(i, t) ==
    UserAction(i, t, Desc("Performed action", <<>>), Some(<<>>), Some(""),
               Some(<<>>), Some(<<>>), NoneOpt, Some(<<>>), Some(<<>>))

ActionsOfTypes(ts) == [i \in 1..Len(ts) |-> ActionOfType(i, ts[i])]

\* the sequence that lists the types of S once each, in funnel order
RECURSIVE InFunnelOrder(_, _)
InFunnelOrder(S, i) ==
    IF i > Len(FunnelOrder) THEN <<>>
    ELSE (IF FunnelOrder[i] \in S THEN << FunnelOrder[i] >> ELSE <<>>)
         \o InFunnelOrder(S, i + 1)

\* the action sequences the classifier is applied to: every sequence of at
\* most MaxLen actions, and for every set of types the sequence with one
\* action of each
ClassifyInputs ==
    { ActionsOfTypes(ts) : ts \in SeqsUpTo(FunnelTypes, MaxLen) }
    \cup { ActionsOfTypes(InFunnelOrder(S, 1)) : S \in SUBSET FunnelTypes }

\* ----------------------------------------------------------------- actions
Init ==
    /\ flow_data \in Traces
    /\ api_key \in BOOLEAN
    /\ pc = "parse"
    /\ results = EmptyDict
    /\ actions = NoneOpt
    /\ flow_name = NoneOpt
    /\ summary_result = NoneOpt
    /\ insights = NoneOpt
    /\ caught = {}
    /\ log = <<>>
    /\ returned = <<>>
    /\ self_actions = <<>>
    /\ flow_context = NoneOpt
    /\ prompt_flow_context = NoneOpt

\* analyze, lines 25-32
AnalyzeParse ==
    /\ pc = "parse"
    /\ \E loaded \in BOOLEAN :
         LET r == ParseStage(loaded, flow_data)
         IN  /\ pc' = r.pc
             /\ results' = r.results
             /\ actions' = r.actions
             /\ flow_name' = r.flow_name
             /\ caught' = caught \cup r.caught
             /\ log' = log \o r.log
    /\ UNCHANGED << flow_data, api_key, summary_result, insights, returned,
                    self_actions, flow_context,
                    prompt_flow_context >>

\* analyze, lines 34-49
AnalyzeSummary ==
    /\ pc = "summary"
    /\ \E ctor \in BOOLEAN, reply1 \in TextReplies, reply2 \in TextReplies,
          reply3 \in ExtractionReplies :
         LET r == SummaryStage(results, actions[1], flow_name[1], api_key,
                               ctor, reply1, reply2, reply3)
         IN  /\ pc' = r.pc
             /\ results' = r.results
             /\ summary_result' = r.summary_result
             /\ insights' = r.insights
             /\ caught' = caught \cup r.caught
             /\ log' = log \o r.log
    /\ UNCHANGED << flow_data, api_key, actions, flow_name, returned,
                    self_actions, flow_context,
                    prompt_flow_context >>

\* analyze, lines 51-62
AnalyzeImage ==
    /\ pc = "image"
    /\ \E ctor \in BOOLEAN, reply \in BOOLEAN, written \in BOOLEAN :
         LET r == ImageStage(results, actions[1], flow_name[1],
                             summary_result, insights, api_key, ctor, reply,
                             written)
         IN  /\ pc' = r.pc
             /\ results' = r.results
             /\ caught' = caught \cup r.caught
             /\ log' = log \o r.log
             /\ prompt_flow_context' = r.prompt_flow_context
    /\ UNCHANGED << flow_data, api_key, actions, flow_name, summary_result,
                    insights, returned, self_actions, flow_context >>

\* analyze, lines 64-71
AnalyzeReport ==
    /\ pc = "report"
    /\ \E written \in BOOLEAN :
         LET r == ReportStage(results, written)
         IN  /\ pc' = r.pc
             /\ results' = r.results
             /\ caught' = caught \cup r.caught
             /\ log' = log \o r.log
    /\ UNCHANGED << flow_data, api_key, actions, flow_name, summary_result,
                    insights, returned,
                    self_actions, flow_context,
                    prompt_flow_context >>

Next == AnalyzeParse \/ AnalyzeSummary \/ AnalyzeImage \/ AnalyzeReport

Spec == Init /\ [][Next]_vars

\* the classifier applied to arbitrary action sequences: the state analyze
\* is in after a successful parse stage that returned acts
InitClassify ==
    /\ flow_data = [type |-> "flow"]
    /\ api_key \in BOOLEAN
    /\ pc = "summary"
    /\ \E acts \in ClassifyInputs :
         /\ actions = Some(acts)
         /\ results = ("actions" :> acts) @@ ("flow_name" :> N_shop)
         /\ log = << Event("load_and_parse_flow", "none", acts) >>
    /\ flow_name = Some(N_shop)
    /\ summary_result = NoneOpt
    /\ insights = NoneOpt
    /\ caught = {}
    /\ returned = <<>>
    /\ self_actions = <<>>
    /\ flow_context = NoneOpt
    /\ prompt_flow_context = NoneOpt

\* a direct call summary_generator.generate_insights(actions, flow_name)
CallGenerateInsights ==
    /\ Len(returned) < MaxRuns
    /\ \E reply \in ExtractionReplies :
         /\ returned' = Append(returned, GenerateInsights(actions[1], reply))
         /\ log' = log \o
              << Event("generate_insights classify", "none", actions[1]),
                 Event("_extract_brand_and_context request", "text",
                       actions[1]) >>
    /\ UNCHANGED << flow_data, api_key, pc, results, actions, flow_name,
                    summary_result, insights, caught, self_actions, flow_context,
                    prompt_flow_context >>

NextClassify == CallGenerateInsights \/ AnalyzeSummary

SpecClassify == InitClassify /\ [][NextClassify]_vars

\* ------------------------------------------------------------ decoder runs
\* hotspot labels, one for each rule of the documented hotspot classifier
H_tap_search == <<"T","a","p"," ","t","o"," ","s","e","a","r","c","h">>
H_scooter_image == <<"C","l","i","c","k"," ","t","h","e"," ","s","c","o","o","t","e","r"," ","i","m","a","g","e">>
H_choose_color == <<"C","h","o","o","s","e"," ","a"," ","c","o","l","o","r">>
H_explore_color == <<"E","x","p","l","o","r","e"," ","t","h","e"," ","c","o","l","o","r"," ","o","p","t","i","o","n","s">>
H_add_to_cart == <<"A","d","d"," ","t","o"," ","c","a","r","t">>
H_decline == <<"D","e","c","l","i","n","e"," ","c","o","v","e","r","a","g","e">>
H_visit_cart == <<"V","i","s","i","t"," ","y","o","u","r"," ","c","a","r","t">>
H_other == <<"*","*","D","o","n","e","*","*",".">>

\* an IMAGE step that has a hotspot label and neither page nor click context
HotspotStep(id, label) ==
    [ type |-> "IMAGE", id |-> id, hotspots |-> << [label |-> label] >> ]

\* the steps the decoder is run on: those of StepPool, chapters with other
\* titles or none, a step for each hotspot rule, steps without hotspot label
\* for each element type, and steps that lack some of the optional fields
ParseStepPool ==
    StepPool \cup
    { [type |-> "CHAPTER"],
      [type |-> "CHAPTER", id |-> "p2", title |-> <<"F","i","n","i","s","h","e","d">>],
      HotspotStep("p3", H_tap_search),
      HotspotStep("p4", H_scooter_image),
      HotspotStep("p5", H_choose_color),
      HotspotStep("p6", H_explore_color),
      HotspotStep("p7", H_add_to_cart),
      HotspotStep("p8", H_decline),
      HotspotStep("p9", H_visit_cart),
      HotspotStep("p10", H_other),
      ImageStep("p11", "button", <<"S","e","a","r","c","h">>, <<>>, U_home),
      ImageStep("p12", "link", <<"H","o","m","e">>, <<>>, U_home),
      ImageStep("p13", "", <<"M","e","n","u">>, <<>>, U_home),
      [type |-> "IMAGE", hotspots |-> <<>>,
       clickContext |-> [elementType |-> "button"]],
      [type |-> "IMAGE", id |-> "p15", hotspots |-> << EmptyDict >>,
       pageContext |-> EmptyDict],
      ImageStep("p16", "button", <<"A","d","d"," ","t","o"," ","C","a","r","t">>, <<>>, U_home) }

\* the capturedEvents lists of the decoder runs: none, or click events with
\* a timestamp (one on an IMAGE step, one on a CHAPTER step), a click event
\* without timestamp and a typing event that carries the typed text
ParseEventPool ==
    { <<>>,
      << [clickId |-> "s4", timeMs |-> 1500],
         [type |-> "typing", value |-> <<"s","c">>, timeMs |-> 900],
         [clickId |-> "p2", timeMs |-> 700],
         [clickId |-> "p15"] >> }

\* the documents the decoder is run on
ParseTraces ==
    { [name |-> N_shop, steps |-> st, capturedEvents |-> ev] :
        st \in SeqsUpTo(ParseStepPool, MaxSteps), ev \in ParseEventPool }
    \cup { [name |-> N_shop, steps |-> st] :
             st \in SeqsUpTo(ParseStepPool, 1) }
    \cup { [type |-> "flow"] }

\* FlowParser.__init__
InitParse ==
    /\ flow_data \in ParseTraces
    /\ api_key = TRUE
    /\ pc = "parse"
    /\ results = EmptyDict
    /\ actions = NoneOpt
    /\ flow_name = NoneOpt
    /\ summary_result = NoneOpt
    /\ insights = NoneOpt
    /\ caught = {}
    /\ log = <<>>
    /\ returned = <<>>
    /\ self_actions = <<>>
    /\ flow_context = NoneOpt
    /\ prompt_flow_context = NoneOpt

\* the number of parse() calls made on the parser
ParseCalls == Len(SelectSeq(log, LAMBDA e : e.ev = "FlowParser.parse"))

\* a call parser.parse()
CallParse ==
    /\ ParseCalls < MaxParses
    /\ self_actions' = Parse(flow_data, self_actions)
    /\ log' = Append(log, Event("FlowParser.parse", "none", <<>>))
    /\ UNCHANGED << flow_data, api_key, pc, results, actions, flow_name,
                    summary_result, insights, caught, returned,
                    flow_context, prompt_flow_context >>

\* FlowParser.get_summary_stats
GetSummaryStats(name, acts) ==
    [ flow_name |-> name,
      total_actions |-> Len(acts),
      action_types |-> ActionBreakdown(acts),
      first_action_time |->
          IF Len(acts) > 0 THEN acts[1].timestamp ELSE NoneOpt,
      last_action_time |->
          IF Len(acts) > 0 THEN acts[Len(acts)].timestamp ELSE NoneOpt ]

\* a call parser.get_summary_stats()
CallGetSummaryStats ==
    /\ returned' = << GetSummaryStats(FlowName(flow_data), self_actions) >>
    /\ UNCHANGED << flow_data, api_key, pc, results, actions, flow_name,
                    summary_result, insights, caught, log, self_actions,
                    flow_context, prompt_flow_context >>

NextParse == CallParse \/ CallGetSummaryStats

SpecParse == InitParse /\ [][NextParse]_vars



\* ---------------------------------------------------------- extractor runs
\* the words the generated titles are made of
TitleWords ==
    { <<"E","x","p","l","o","r","e">>,
      <<"t","h","e">>,
      <<"Z","o","o","m">>,
      <<"p","l","a","t","f","o","r","m">>,
      <<"i","n">> }

\* " ".join(words)
RECURSIVE Join(_)
Join(words) ==
    IF Len(words) = 0 THEN <<>>
    ELSE IF Len(words) = 1 THEN words[1]
    ELSE words[1] \o <<" ">> \o Join(Tail(words))

\* the flow titles: every title of at most MaxWords of the words above, and
\* titles that reach each pattern, each keyword group and the fallbacks
Titles ==
    { Join(ws) : ws \in SeqsUpTo(TitleWords, MaxWords) } \cup
    { <<"S","e","t","t","i","n","g"," ","u","p"," ","y","o","u","r"," ","W","o","r","k","s","p","a","c","e"," ","i","n"," ","N","o","t","i","o","n">>,
      <<"E","x","p","l","o","r","e"," ","t","h","e"," ","Z","o","o","m"," ","p","l","a","t","f","o","r","m">>,
      <<"S","h","o","p"," ","o","n"," ","t","a","r","g","e","t",".","c","o","m">>,
      <<"D","e","s","i","g","n"," ","u","s","i","n","g"," ","F","i","g","m","a">>,
      <<"C","a","l","l"," ","w","i","t","h"," ","S","a","l","e","s","f","o","r","c","e">>,
      <<"T","h","e"," ","n","o","t","i","o","n"," ","a","p","p">>,
      <<"T","e","a","m"," ","a","n","a","l","y","t","i","c","s"," ","d","a","s","h","b","o","a","r","d">>,
      <<"S","e","t"," ","u","p"," ","y","o","u","r"," ","a","c","c","o","u","n","t">>,
      <<"C","r","e","a","t","e"," ","a"," ","t","e","a","m"," ","p","r","o","j","e","c","t">>,
      <<"M","e","e","t","i","n","g"," ","s","c","h","e","d","u","l","e">>,
      <<"T","u","t","o","r","i","a","l">>,
      <<"S","h","a","r","e"," ","r","e","p","o","r","t">>,
      <<"H","o","w"," ","t","o"," ","a","d","d">>,
      <<"C","o","n","f","i","g","u","r","e"," ","y","o","u","r"," ","p","r","o","f","i","l","e">>,
      <<"B","u","y"," ","3","d"," ","p","r","i","n","t","s"," ","i","n"," ","t","h","e"," ","s","h","o","p">>,
      <<>> }

\* the state analyze is in after a parse stage that returned no action for
\* a document with the given title
InitExtract ==
    /\ flow_data = [type |-> "flow"]
    /\ api_key \in BOOLEAN
    /\ pc = "summary"
    /\ actions = Some(<<>>)
    /\ \E name \in Titles :
         /\ flow_name = Some(name)
         /\ results = ("actions" :> <<>>) @@ ("flow_name" :> name)
    /\ log = << Event("load_and_parse_flow", "none", <<>>) >>
    /\ summary_result = NoneOpt
    /\ insights = NoneOpt
    /\ caught = {}
    /\ returned = <<>>
    /\ self_actions = <<>>
    /\ flow_context = NoneOpt
    /\ prompt_flow_context = NoneOpt

\* a direct call image_generator._extract_flow_context(flow_name, actions)
CallExtractFlowContext ==
    /\ flow_context' = Some(ExtractFlowContext(flow_name[1]))
    /\ UNCHANGED << flow_data, api_key, pc, results, actions, flow_name,
                    summary_result, insights, caught, log, returned,
                    self_actions, prompt_flow_context >>

NextExtract == CallExtractFlowContext \/ AnalyzeSummary \/ AnalyzeImage

SpecExtract == InitExtract /\ [][NextExtract]_vars

\* ------------------------------------------------------------- properties
\* analyze has returned from a run whose parse stage succeeded
Returned == pc = "done" /\ "parse" \notin caught

\* the positions of the log where the call ev was made
Calls(ev) == { i \in 1..Len(log) : log[i].ev = ev }

\* the positions of the log where a request to the service svc was made
Requests(svc) == { i \in 1..Len(log) : log[i].svc = svc }

\* C1: once decoding has succeeded, a failed summary stage does not keep the
\* image stage from invoking the image service with the decoded actions
\* (when the image generator itself could be constructed) nor the report
\* from being assembled, and a failed image stage does not keep the report
\* from being assembled.
C1_LaterStagesStillRun ==
    Returned =>
        /\ ("summary" \in caught /\ Calls("SocialImageGenerator") # {}
              => \E i \in Requests("image") : log[i].actions = actions[1])
        /\ ("summary" \in caught => Calls("generate_markdown_report") # {})
        /\ ("image" \in caught => Calls("generate_markdown_report") # {})

\* C2: a failed decoding stage aborts the run: the results carry 'error'
\* and nothing else, and no later stage has made any call.
C2_DecodeFailureAborts ==
    "parse" \in caught =>
        /\ pc = "done"
        /\ DOMAIN results = {"error"}
        /\ log = <<>>
        /\ summary_result = NoneOpt /\ insights = NoneOpt

C2_Witness == "parse" \in caught /\ pc = "done" /\ "error" \in DOMAIN results

\* C3: whatever happens to the text-generation collaborator, the insights
\* of the final results carry the funnel flags, the behavior flags and the
\* flow_classification the classifier computes from the decoded actions.
C3_CoreResultsSurvive ==
    Returned =>
        LET ins == results["insights"]
            core == InsightsDict(actions[1])
        IN  /\ "conversion_funnel" \in DOMAIN ins
            /\ ins.conversion_funnel = core.conversion_funnel
            /\ ins.user_behavior_indicators = core.user_behavior_indicators
            /\ ins.flow_classification = core.flow_classification

\* C4: analyze never raises, and after a run whose decoding succeeded every
\* stage has left its value or its typed fallback in the results.
C4_TypedFallbacks ==
    /\ pc # "raised"
    /\ Returned =>
        /\ {"summary", "insights", "image_filename", "report_filename"}
              \subseteq DOMAIN results
        /\ DOMAIN results["summary"] =
              {"detailed_analysis", "executive_summary", "flow_name",
               "total_actions"}
        /\ results["summary"].total_actions = Len(actions[1])
        /\ "flow_classification" \in DOMAIN results["insights"]
        /\ "user_behavior_indicators" \in DOMAIN results["insights"]
        /\ "completion_rate" \in
              DOMAIN results["insights"].user_behavior_indicators
        /\ results["image_filename"] \in {None, "social_media_{time}.png"}
        /\ results["report_filename"] \in
              {None, "flow_analysis_report_{safe_name}_{timestamp}.md"}

C4_Witness ==
    /\ Returned
    /\ caught = {"summary", "image", "report"}
    /\ results["image_filename"] = None

\* the stage the specification assigns a call to: 1 Decoder, 2 Classifier,
\* 3 narrative service, 4 image service, 5 Report Assembler (0: a
\* constructor, which belongs to no stage)
DocumentedStage(e) ==
    IF e.ev = "load_and_parse_flow" THEN 1
    ELSE IF e.ev = "generate_insights classify" THEN 2
    ELSE IF e.svc = "text" THEN 3
    ELSE IF e.svc = "image" THEN 4
    ELSE IF e.ev = "generate_markdown_report" THEN 5
    ELSE 0

CallOrder(e) ==
    IF e.ev = "load_and_parse_flow" THEN 1
    ELSE IF e.ev = "AISummaryGenerator" THEN 2
    ELSE IF e.ev = "generate_summary request" THEN 3
    ELSE IF e.ev = "executive summary request" THEN 4
    ELSE IF e.ev = "generate_insights classify" THEN 5
    ELSE IF e.ev = "_extract_brand_and_context request" THEN 6
    ELSE IF e.ev = "SocialImageGenerator" THEN 7
    ELSE IF e.ev = "images.generate request" THEN 8
    ELSE IF e.ev = "generate_markdown_report" THEN 9
    ELSE 0

AllInsights ==
    { returned[i] : i \in 1..Len(returned) }
    \cup (IF insights = NoneOpt THEN {} ELSE { insights[1] })

\* some action of the state's sequence has type t
Some_(t) == \E i \in 1..Len(actions[1]) : actions[1][i].action_type = t

L_SuccessCustom ==
    "Successful E-commerce Conversion with Product Customization"
L_Success == "Successful E-commerce Conversion"
L_Incomplete == "E-commerce Conversion (Incomplete)"
L_Research == "Product Research with Customization Exploration"
L_Discovery == "Product Discovery Flow"
L_General == "General Navigation Flow"

\* C6: the flow_classification label is the first match of the priority
\* chain over (has_search, has_customization, has_purchase, completed).
C6_PriorityChain ==
    \A d \in AllInsights :
        LET s == Some_("search")
            c == Some_("select_option") \/ Some_("browse_options")
            p == Some_("add_to_cart")
            f == Some_("complete")
            label == d.flow_classification
        IN  /\ (f /\ p /\ c) => label = L_SuccessCustom
            /\ (f /\ p /\ ~c) => label = L_Success
            /\ (~f /\ p) => label = L_Incomplete
            /\ (~p /\ s /\ c) => label = L_Research
            /\ (~p /\ s /\ ~c) => label = L_Discovery
            /\ (~p /\ ~s) => label = L_General

C6_Witness ==
    /\ Some_("search") /\ Some_("select_product") /\ Some_("select_option")
    /\ Some_("add_to_cart") /\ Some_("complete")
    /\ Len(returned) > 0
    /\ returned[1].flow_classification = L_SuccessCustom

\* C7: without an add_to_cart action the label is none of the three
\* conversion labels.
C7_NoCartNoConversion ==
    ~Some_("add_to_cart") =>
        \A d \in AllInsights :
            d.flow_classification \notin
                {L_SuccessCustom, L_Success, L_Incomplete}

C7_Witness ==
    /\ ~Some_("add_to_cart") /\ Some_("complete") /\ Some_("select_option")
    /\ Len(returned) > 0
    /\ returned[1].flow_classification = L_General

\* C8: completion_rate is 100 exactly when some action is complete and 0
\* otherwise, and the fallback insights of the orchestrator carry 0.
C8_CompletionRate ==
    /\ \A d \in AllInsights :
          /\ d.user_behavior_indicators.completion_rate \in {0, 100}
          /\ d.user_behavior_indicators.completion_rate = 100
                <=> Some_("complete")
    /\ "summary" \in caught =>
          results["insights"].user_behavior_indicators.completion_rate = 0
    /\ "insights" \in DOMAIN results =>
          results["insights"].user_behavior_indicators.completion_rate
              \in {0, 100}

C8_Witness ==
    /\ Some_("complete")
    /\ Len(returned) > 0
    /\ returned[1].user_behavior_indicators.completion_rate = 100
    /\ "summary" \in caught

\* C9: the funnel flags and the behavior flags are exactly the presence
\* tests of the claim.
C9_Flags ==
    \A d \in AllInsights :
        LET cf == d.conversion_funnel
            ub == d.user_behavior_indicators
        IN  /\ cf.search_initiated = Some_("search")
            /\ cf.product_selected =
                  (Some_("search") /\ Some_("select_product"))
            /\ cf.customization_explored =
                  (Some_("select_option") \/ Some_("browse_options"))
            /\ cf.cart_conversion =
                  (Some_("select_product") /\ Some_("add_to_cart"))
            /\ cf.flow_completed = Some_("complete")
            /\ ub.price_conscious = Some_("decline_option")
            /\ ub.exploration_oriented = cf.customization_explored
            /\ ub.goal_oriented =
                  (cf.product_selected /\ cf.cart_conversion)

C9_Witness ==
    /\ Some_("add_to_cart") /\ ~Some_("select_product") /\ Some_("search")
    /\ Some_("decline_option")
    /\ Len(returned) > 0
    /\ ~returned[1].conversion_funnel.cart_conversion
    /\ returned[1].user_behavior_indicators.price_conscious

CoreKeys == { "action_breakdown", "conversion_funnel",
              "user_behavior_indicators", "flow_classification" }

C11_EmptySequence ==
    actions[1] = <<>> =>
        \A d \in AllInsights :
            /\ DOMAIN d.action_breakdown = {}
            /\ \A k \in DOMAIN d.conversion_funnel :
                  d.conversion_funnel[k] = FALSE
            /\ DOMAIN d.conversion_funnel =
                  { "search_initiated", "product_selected",
                    "customization_explored", "cart_conversion",
                    "flow_completed" }
            /\ d.user_behavior_indicators =
                  [ price_conscious |-> FALSE, exploration_oriented |-> FALSE,
                    goal_oriented |-> FALSE, completion_rate |-> 0 ]
            /\ d.flow_classification = L_General

C11_Witness ==
    /\ actions[1] = <<>>
    /\ Len(returned) > 0
    /\ insights # NoneOpt
    /\ returned[1].flow_classification = L_General

\* ------------------------------------------------- properties of the decoder
\* the steps collection of the document
Steps == Get(flow_data, "steps", <<>>)

\* self_actions is the result of one parse() of a fresh parser
Decoded == ParseCalls = 1

\* the document with st as its steps collection
DocWith(st) ==
    IF "steps" \in DOMAIN flow_data THEN [flow_data EXCEPT !.steps = st]
    ELSE flow_data

\* the number of actions the first n steps decode to
EmittedUpTo(n) == Len(Parse(DocWith(SubSeq(Steps, 1, n)), <<>>))

\* the actions of the decoded sequence that step n produced
EmittedBy(n) == SubSeq(self_actions, EmittedUpTo(n - 1) + 1, EmittedUpTo(n))

\* the kind of step n
Kind(n) == Get(Steps[n], "type", None)

\* the hotspot label of step n, empty when it has none
LabelOf(n) ==
    LET hs == Get(Steps[n], "hotspots", <<>>)
    IN  IF Len(hs) > 0 THEN Get(hs[1], "label", <<>>) ELSE <<>>

\* the element text and the element type of step n
TextOf(n) == Get(Get(Steps[n], "clickContext", EmptyDict), "text", <<>>)
ElementTypeOf(n) ==
    Get(Get(Steps[n], "clickContext", EmptyDict), "elementType", "")

\* C12: a VIDEO step produces no Action and does not advance step_number:
\* the decoded sequence is the one of the trace without its VIDEO steps.
C12_VideoSkipped ==
    Decoded =>
        /\ \A n \in 1..Len(Steps) : Kind(n) = "VIDEO" => EmittedBy(n) = <<>>
        /\ self_actions =
              Parse(DocWith(SelectSeq(Steps,
                        LAMBDA st : Get(st, "type", None) # "VIDEO")), <<>>)

C12_Witness ==
    /\ Decoded
    /\ Len(Steps) = 2 /\ Kind(1) = "VIDEO" /\ Kind(2) = "IMAGE"
    /\ Len(self_actions) = 1
    /\ self_actions[1].step_number = 0

K_thank == <<"t","h","a","n","k">>
K_complete == <<"c","o","m","p","l","e","t","e">>
K_finish == <<"f","i","n","i","s","h">>

\* C13: every CHAPTER step decodes to exactly one Action, of type complete
\* when its title contains 'thank', 'complete' or 'finish' in any case and
\* of type start or navigate otherwise.
C13_ChapterCompletion ==
    Decoded =>
        \A n \in 1..Len(Steps) :
            Kind(n) = "CHAPTER" =>
                LET title == Lower(Get(Steps[n], "title", <<>>))
                    vocabulary == \/ Contains(title, K_thank)
                                  \/ Contains(title, K_complete)
                                  \/ Contains(title, K_finish)
                IN  /\ Len(EmittedBy(n)) = 1
                    /\ vocabulary => EmittedBy(n)[1].action_type = "complete"
                    /\ ~vocabulary =>
                          EmittedBy(n)[1].action_type \in {"start", "navigate"}

\* the typing events among the captured events
TypingEvents ==
    LET evs == Get(flow_data, "capturedEvents", <<>>)
    IN  { i \in 1..Len(evs) : Get(evs[i], "type", "") = "typing" }

\* C14: an IMAGE step that decodes to search, with a typing event captured
\* and an Action emitted before it, yields a second Action of type 'type'
\* that carries the typed value and the same page title, and step_number
\* advances by two; no other step yields more than one Action.
C14_TypingSynthesized ==
    Decoded =>
        \A n \in 1..Len(Steps) :
            LET out == EmittedBy(n)
                evs == Get(flow_data, "capturedEvents", <<>>)
            IN  IF /\ Kind(n) = "IMAGE" /\ Len(out) >= 1
                   /\ out[1].action_type = "search"
                   /\ TypingEvents # {} /\ EmittedUpTo(n - 1) > 0
                THEN /\ Len(out) = 2
                     /\ out[2].action_type = "type"
                     /\ \E i \in TypingEvents :
                           out[2].element_text = Some(evs[i].value)
                     /\ out[2].page_title = out[1].page_title
                     /\ out[2].step_number = out[1].step_number + 1
                ELSE Len(out) <= 1

K_search == <<"s","e","a","r","c","h">>
K_tap == <<"t","a","p">>
K_scooter_image == <<"s","c","o","o","t","e","r"," ","i","m","a","g","e">>
K_learn_more == <<"l","e","a","r","n"," ","m","o","r","e">>
K_color == <<"c","o","l","o","r">>
K_choose == <<"c","h","o","o","s","e">>
K_explore == <<"e","x","p","l","o","r","e">>
K_add_to_cart == <<"a","d","d"," ","t","o"," ","c","a","r","t">>
K_decline_coverage == <<"d","e","c","l","i","n","e"," ","c","o","v","e","r","a","g","e">>
K_cart == <<"c","a","r","t">>

\* the action type the documented hotspot classifier gives a label
HotspotRule(label) ==
    LET l == Lower(label)
    IN  IF Contains(l, K_search) /\ Contains(l, K_tap) THEN "search"
        ELSE IF Contains(l, K_scooter_image) \/ Contains(l, K_learn_more)
        THEN "select_product"
        ELSE IF Contains(l, K_color) /\ Contains(l, K_choose)
        THEN "select_option"
        ELSE IF Contains(l, K_color) /\ Contains(l, K_explore)
        THEN "browse_options"
        ELSE IF Contains(l, K_add_to_cart) THEN "add_to_cart"
        ELSE IF Contains(l, K_decline_coverage) THEN "decline_option"
        ELSE IF Contains(l, K_cart) THEN "navigate_cart"
        ELSE "action"

\* C15: for an IMAGE step with a hotspot label the action type is the one
\* of the hotspot rules, first match winning, whatever the element type and
\* the element text are.
C15_HotspotDecides ==
    Decoded =>
        \A n \in 1..Len(Steps) :
            (Kind(n) = "IMAGE" /\ LabelOf(n) # <<>>) =>
                /\ Len(EmittedBy(n)) >= 1
                /\ EmittedBy(n)[1].action_type = HotspotRule(LabelOf(n))

Digits == {"0","1","2","3","4","5","6","7","8","9"}

\* str.isdigit(): a non-empty text of digits only
Numeric(t) == Len(t) > 0 /\ \A i \in 1..Len(t) : t[i] \in Digits

\* the action type the documented element classifier gives
ElementRule(element_type, text) ==
    IF element_type = "button" /\ Contains(Lower(text), K_cart)
    THEN "add_to_cart"
    ELSE IF element_type = "link" /\ Numeric(text) THEN "navigate_cart"
    ELSE IF text # <<>> THEN "click"
    ELSE "action"

\* C16: for an IMAGE step without hotspot label the action type is
\* add_to_cart for a button whose text contains 'cart', navigate_cart for a
\* link whose text is numeric, else click for a non-empty element text and
\* action for an empty one.
C16_ElementDecides ==
    Decoded =>
        \A n \in 1..Len(Steps) :
            (Kind(n) = "IMAGE" /\ LabelOf(n) = <<>>) =>
                /\ Len(EmittedBy(n)) >= 1
                /\ EmittedBy(n)[1].action_type =
                      ElementRule(ElementTypeOf(n), TextOf(n))
\* C17: a trace document without a steps collection makes the decode fail,
\* so that the orchestrator reports an error and analyses nothing.
C17_MissingStepsFails ==
    ("steps" \notin DOMAIN flow_data /\ pc # "parse") =>
        /\ "parse" \in caught
        /\ "error" \in DOMAIN results

\* the steps that are decoded: those of kind CHAPTER or IMAGE
DecodedSteps == { n \in 1..Len(Steps) : Kind(n) \in {"CHAPTER", "IMAGE"} }

\* C18: a step that lacks optional fields (title, subtitle, id, pageContext,
\* clickContext, hotspots, hotspot label, or the document's capturedEvents)
\* still decodes to its Action, with the empty default in place of each
\* missing field, and the steps after it are decoded as well.
C18_MissingFieldsDefault ==
    Decoded =>
        /\ Len(self_actions) = Cardinality(DecodedSteps)
        /\ \A n \in DecodedSteps :
              /\ Len(EmittedBy(n)) = 1
              /\ LET a == EmittedBy(n)[1]
                     step == Steps[n]
                 IN  /\ (Kind(n) = "CHAPTER" /\ "title" \notin DOMAIN step)
                            => a.description.arg = <<>>
                     /\ (Kind(n) = "IMAGE" /\ "pageContext" \notin DOMAIN step)
                            => /\ a.page_title = Some(<<>>)
                               /\ a.page_url = Some(<<>>)
                     /\ (Kind(n) = "IMAGE" /\ "clickContext" \notin DOMAIN step)
                            => /\ a.element_text = Some(<<>>)
                               /\ a.element_type = Some("")
                               /\ a.css_selector = Some(<<>>)
                     /\ (Kind(n) = "IMAGE" /\ LabelOf(n) = <<>>)
                            => a.hotspot_label = Some(<<>>)
                     /\ (Kind(n) = "IMAGE"
                         /\ ("id" \notin DOMAIN step
                             \/ "capturedEvents" \notin DOMAIN flow_data))
                            => a.timestamp = NoneOpt

C18_Witness ==
    /\ Decoded
    /\ Len(Steps) = 2
    /\ DOMAIN Steps[1] = {"type", "hotspots", "clickContext"}
    /\ DOMAIN Steps[2] = {"type"} /\ Kind(2) = "CHAPTER"
    /\ Len(self_actions) = 2
    /\ self_actions[1].page_title = Some(<<>>)
    /\ self_actions[2].description.arg = <<>>

\* C19: the step_numbers of a decoded sequence are positive integers from a
\* counter that starts at 1, unique and strictly increasing along the
\* sequence.
C19_StepNumbersFromOne ==
    Decoded =>
        /\ \A i \in 1..Len(self_actions) : self_actions[i].step_number >= 1
        /\ Len(self_actions) > 0 => self_actions[1].step_number = 1
        /\ \A i, j \in 1..Len(self_actions) :
              i < j => self_actions[i].step_number < self_actions[j].step_number

\* the action type enumeration
ActionTypes ==
    { "navigate", "start", "complete", "search", "type", "select_product",
      "select_option", "browse_options", "add_to_cart", "decline_option",
      "navigate_cart", "click", "action" }

\* C20: every Action the decoder emits has an action type of the
\* enumeration and a non-empty description.
C20_TypeAndDescription ==
    \A i \in 1..Len(self_actions) :
        /\ self_actions[i].action_type \in ActionTypes
        /\ DescNonEmpty(self_actions[i].description)

C20_Witness ==
    /\ ParseCalls >= 1
    /\ \E i \in 1..Len(self_actions) :
          /\ self_actions[i].element_text = Some(<<>>)
          /\ self_actions[i].hotspot_label = Some(<<>>)
          /\ self_actions[i].description.fmt = "Performed action"
    /\ \E i \in 1..Len(self_actions) :
          self_actions[i].action_type = "add_to_cart"
\* the captured events whose clickId is the identifier of step n
MatchingEvents(n) ==
    LET evs == Get(flow_data, "capturedEvents", <<>>)
    IN  { i \in 1..Len(evs) :
            /\ "id" \in DOMAIN Steps[n]
            /\ Get(evs[i], "clickId", "") = Steps[n].id }

\* C21: the Action of a CHAPTER or IMAGE step whose identifier matches a
\* captured event with a timestamp carries that timestamp; the Action of a
\* step that matches no captured event has none.
C21_TimestampAttached ==
    Decoded =>
        \A n \in DecodedSteps :
            LET evs == Get(flow_data, "capturedEvents", <<>>)
            IN  /\ Len(EmittedBy(n)) = 1
                /\ \A i \in MatchingEvents(n) :
                      "timeMs" \in DOMAIN evs[i] =>
                          EmittedBy(n)[1].timestamp = Some(evs[i].timeMs)
                /\ MatchingEvents(n) = {} =>
                      EmittedBy(n)[1].timestamp = NoneOpt

\* ----------------------------------------------- properties of the extractor
\* the patterns in the documented order: the leading 'X <word>' pattern last
DocumentedPatterns ==
    << BrandPatterns[1], BrandPatterns[2], BrandPatterns[3], BrandPatterns[4],
       BrandPatterns[6], BrandPatterns[7], BrandPatterns[8],
       BrandPatterns[5] >>

\* C22: brand detection tries the patterns 'on X.com', 'in X', 'using X',
\* 'with X', 'X app', 'X platform', 'X dashboard', leading 'X <word>' in
\* this order and returns the title-cased group of the first one whose
\* group is not a stopword.
C22_DocumentedPatternOrder ==
    flow_context # NoneOpt =>
        flow_context[1].brand = TryPatterns(DocumentedPatterns, 1, flow_name[1])

\* the keyword groups as documented: setup/configure for the first group
DocumentedTaskGroups ==
    [ TaskGroups EXCEPT
        ![1].words = << <<"s","e","t","u","p">>, <<"c","o","n","f","i","g","u","r","e">> >> ]

\* C23 as stated: the task context is the value of the first of the groups
\* setup/configure, create/build/design, ... that has a keyword in the
\* lower-cased title, 'digital workflow' when none has.
C23_DocumentedGroups ==
    flow_context # NoneOpt =>
        flow_context[1].task_context =
            FirstTaskGroup(DocumentedTaskGroups, flow_name[1])

\* whether the lower-cased title has a keyword of group g of the code
GroupMatches(g) ==
    \E i \in 1..Len(TaskGroups[g].words) :
        Contains(Lower(flow_name[1]), TaskGroups[g].words[i])

\* C23: the task context is the value of the first group, in the order
\* setup/set up/configure, create/build/design, workspace/account/profile,
\* dashboard/analytics/report, meeting/call/schedule, project/task/workflow,
\* team/collaboration/share, cart/shop/buy/purchase, onboard/tutorial/learn,
\* that has a keyword in the lower-cased title, also when several groups
\* match, and 'digital workflow' when no group matches.
C23_FirstGroupWins ==
    flow_context # NoneOpt =>
        /\ \A g \in 1..Len(TaskGroups) :
              (GroupMatches(g) /\ \A h \in 1..(g - 1) : ~GroupMatches(h))
                  => flow_context[1].task_context = TaskGroups[g].result
        /\ (\A g \in 1..Len(TaskGroups) : ~GroupMatches(g))
              => flow_context[1].task_context = T_digital_workflow

C23_Witness ==
    /\ flow_context # NoneOpt
    /\ Cardinality({ g \in 1..Len(TaskGroups) : GroupMatches(g) }) >= 3
    /\ GroupMatches(2) /\ ~GroupMatches(1)
    /\ flow_context[1].task_context = TaskGroups[2].result

\* C24: when the text service fails during the brand/context extraction,
\* the brand and the task context the image-prompt builder works with are
\* those the title-based extractor finds in the flow title.
C24_FallsBackToTitle ==
    ("extraction" \in caught /\ prompt_flow_context # NoneOpt) =>
        /\ prompt_flow_context[1].brand = DetectBrandFromFlowName(flow_name[1])
        /\ prompt_flow_context[1].task_context =
              ExtractTaskContext(flow_name[1])

\* C25: after any number of parse() calls on one FlowParser its action list
\* holds exactly one Action for each CHAPTER or IMAGE step of the trace,
\* the step_numbers are pairwise distinct, and get_summary_stats, called
\* after a parse, reports that number as total_actions.
C25_ProducedOnce ==
    ParseCalls >= 1 =>
        /\ Len(self_actions) = Cardinality(DecodedSteps)
        /\ \A i, j \in 1..Len(self_actions) :
              i # j => self_actions[i].step_number # self_actions[j].step_number
        /\ (returned # <<>> /\ returned[1].total_actions > 0) =>
              returned[1].total_actions = Cardinality(DecodedSteps)

\* ------------------------------------- properties across decoder, classifier
\* seq with its elements at positions i and j exchanged
Swapped(seq, i, j) ==
    [ k \in 1..Len(seq) |->
        IF k = i THEN seq[j] ELSE IF k = j THEN seq[i] ELSE seq[k] ]

\* the rearrangements of seq that are compared: all its permutations when
\* it has at most MaxLen + 1 elements, else its transpositions and its
\* reversal
Rearranged(seq) ==
    IF Len(seq) <= MaxLen + 1
    THEN { [ k \in 1..Len(seq) |-> seq[f[k]] ] :
             f \in { g \in [1..Len(seq) -> 1..Len(seq)] :
                       \A a, b \in 1..Len(seq) : a # b => g[a] # g[b] } }
    ELSE { Swapped(seq, i, j) : i, j \in 1..Len(seq) }
         \cup { [ k \in 1..Len(seq) |-> seq[Len(seq) + 1 - k] ] }

\* the sum of the values of the dict f over the keys S
RECURSIVE SumOver(_, _)
SumOver(f, S) ==
    IF S = {} THEN 0
    ELSE LET k == CHOOSE k \in S : TRUE
         IN  f[k] + SumOver(f, S \ {k})

\* C26: generate_insights gives every rearrangement of the action sequence
\* the funnel flags, behavior flags, completion_rate, flow_classification
\* and per-type counts it gives the sequence, and the per-type counts sum
\* to the length of the sequence.
C26_OrderIndependent ==
    LET outs == { InsightsDict(perm) : perm \in Rearranged(actions[1]) }
    IN  \A d \in AllInsights :
            /\ \A e \in outs : \A k \in CoreKeys : d[k] = e[k]
            /\ SumOver(d.action_breakdown, DOMAIN d.action_breakdown)
                  = Len(actions[1])

C26_Witness ==
    /\ Len(actions[1]) = 2
    /\ actions[1][1].action_type = "select_product"
    /\ actions[1][2].action_type = "search"
    /\ \E d \in AllInsights : d.conversion_funnel.product_selected

\* the action types the decoder produces
DecoderTypes == { "navigate", "click", "search", "add_to_cart",
                  "select_product", "select_option" }

\* C27: the sequence FlowParser.parse produces for a trace holds only the
\* types navigate, click, search, add_to_cart, select_product and
\* select_option, so its classification has flow_completed false,
\* completion_rate 0, price_conscious false and a label that is neither of
\* the two 'Successful E-commerce Conversion' ones.
C27_DecodedNeverCompleted ==
    /\ actions # NoneOpt =>
          \A i \in 1..Len(actions[1]) :
              actions[1][i].action_type \in DecoderTypes
    /\ insights # NoneOpt =>
          /\ ~insights[1].conversion_funnel.flow_completed
          /\ insights[1].user_behavior_indicators.completion_rate = 0
          /\ ~insights[1].user_behavior_indicators.price_conscious
          /\ insights[1].flow_classification \notin {L_SuccessCustom, L_Success}
          /\ results["insights"] = insights[1]

C27_Witness ==
    /\ insights # NoneOpt
    /\ Len(actions[1]) = 2
    /\ actions[1][1].action_type = "add_to_cart"
    /\ actions[1][2].description.fmt = "Reached end screen: {}"
    /\ insights[1].flow_classification = L_Incomplete

====
